---- MODULE Spec2Model ----
(***************************************************************************)
(* Model of src/app.py: the Streamlit attendance dashboard.                *)
(*                                                                         *)
(* One step of the model is one run of the script (Streamlit re-runs the   *)
(* whole script on every interaction and on st.rerun()).  The session      *)
(* state (logged_in, role) survives between runs; everything a view        *)
(* renders is recomputed by the run and kept here in the output variables. *)
(*                                                                         *)
(* Representation.                                                         *)
(*  - A DataFrame is the set of its rows (records); ids are unique keys.   *)
(*  - Instants are integer seconds; a date is the day number, so           *)
(*    datetime.combine(fecha, hora_inicio) = fecha * DAY + hora_inicio.    *)
(*  - A float is an exact fraction [num, den]; fractions are               *)
(*    compared by cross multiplication.  0.8 is 4/5.                       *)
(*  - Text that the code parses (event id, title) is a tuple of            *)
(*    one-character strings.                                               *)
(*  - None / NaN is the string "NaN" ("None" for the role); a NaN float    *)
(*    is a fraction with den = 0.                                          *)
(*                                                                         *)
(* Spec is the application: the views read get_data(), which falls back to *)
(* the demo data whenever a table is missing or empty.  SpecEngine runs    *)
(* the two views on any collections, empty ones included, as the           *)
(* functions of their inputs that spec.md describes.  The store is fixed   *)
(* for a behaviour (fetch_from_supabase is cached); every store starts     *)
(* one.                                                                    *)
(***************************************************************************)
EXTENDS Integers, Sequences, FiniteSets, TLC

VARIABLES
    logged_in,      \* st.session_state.logged_in
    role,           \* st.session_state.role
    page,           \* what the last run rendered
    flash,          \* st.success / st.error shown by the last run
    tables,         \* what fetch_from_supabase() returns (the store's contents)
    df_users,       \* get_data() result used by the last run
    df_events,
    df_att,
    sel,            \* widget values of the last run
    df_events_f,    \* vista_academica: filtered events
    df_att_f,       \* vista_academica: filtered check-ins
    kpis,           \* kpis_header metrics
    trend,          \* "Tendencia diaria de asistencia"
    m,              \* check-ins merged with event metadata, lat_min, estado
    ev_fac,         \* per event: facultad, cupos, presentes, no_show
    by_fac_estado,  \* "Comparativo por facultad"
    heat,           \* "Mapa de calor por hora y facultad"
    org             \* everything vista_organizador renders

vars == <<logged_in, role, page, flash, tables, df_users, df_events, df_att, sel,
          df_events_f, df_att_f, kpis, trend, m, ev_fac, by_fac_estado, heat, org>>

session == <<logged_in, role>>
outputs == <<df_users, df_events, df_att, sel, df_events_f, df_att_f, kpis, trend,
             m, ev_fac, by_fac_estado, heat, org>>

------------------------------------------------------------------------------
(* Bounds of the model *)

\* most events in a store
MaxEvents == 2
\* most check-ins in a store
MaxAtt == 2

------------------------------------------------------------------------------
(* Helpers: fractions, sums, text *)

DAY == 24 * 60 * 60
HOUR == 60 * 60
NaN == "NaN"

Frac(n, d) == [num |-> n, den |-> d]
FracEq(a, b) == a.num * b.den = b.num * a.den
FracLE(a, b) == a.num * b.den <= b.num * a.den
Max2(a, b) == IF a >= b THEN a ELSE b
MaxOf(S) == CHOOSE x \in S : \A y \in S : y <= x
MinOf(S) == CHOOSE x \in S : \A y \in S : x <= y

RECURSIVE Sum(_)
Sum(f) ==
    IF DOMAIN f = {} THEN 0
    ELSE LET x == CHOOSE y \in DOMAIN f : TRUE
         IN  f[x] + Sum([y \in DOMAIN f \ {x} |-> f[y]])

\* Series.nunique() of the usuario_id column of a set of rows
nunique(rows) == Cardinality({r.usuario_id : r \in rows})

\* str.split(sep)[-1]
SplitLast(s, sep) ==
    LET at == {i \in 1..Len(s) : s[i] = sep}
    IN  IF at = {} THEN s ELSE SubSeq(s, MaxOf(at) + 1, Len(s))

\* str.strip()
Strip(s) ==
    LET ns == {i \in 1..Len(s) : s[i] # " "}
    IN  IF ns = {} THEN <<>> ELSE SubSeq(s, MinOf(ns), MaxOf(ns))

------------------------------------------------------------------------------
(* The stores the runs read: small pools of rows *)

e1 == <<"e", "1">>
e2 == <<"e", "2">>
e3 == <<"e", "3">>
\* an event id no event has
e9 == <<"e", "9">>

Ev(i, t, ty, f, d, c) ==
    [id |-> i, titulo |-> t, tipo |-> ty, facultad |-> f, fecha |-> d,
     hora_inicio |-> 9 * HOUR, cupos |-> c]

EventPool ==
    { Ev(e1, <<"A">>, "charla", "Ingenieria", 0, 100),
      Ev(e1, <<"A">>, "charla", "Ingenieria", 0, 0),
      Ev(e2, <<"B", "|", "C">>, "taller", "Ingenieria", 1, 2),
      Ev(e2, <<"B", "|", "C">>, "charla", "Derecho", 1, 50),
      Ev(e3, <<"D">>, "taller", "Derecho", 0, 1) }

inicio(ev) == ev.fecha * DAY + ev.hora_inicio

At(i, e, u, t, me) ==
    [id |-> i, evento_id |-> e, usuario_id |-> u, hora_checkin |-> t, metodo |-> me]

\* check-ins across events, users, days and hours, and an orphan (event e9)
AttPool ==
    { At(1, e1, "u1", 9 * HOUR + 3 * 60, "QR"),
      At(2, e1, "u2", 9 * HOUR + 20 * 60, "manual"),
      At(5, e2, "u1", DAY + 9 * HOUR - 10 * 60, "QR"),
      At(6, e2, "u3", DAY + 10 * HOUR, "NFC"),
      At(7, e3, "u2", 9 * HOUR, "QR"),
      At(8, e9, "u4", 9 * HOUR, "QR") }

\* check-ins of event e1 on and around every histogram edge and the 15 minute
\* threshold, given as seconds after the start of the event
HistOffsets ==
    { -601, -600, -1, 0, 1, 300, 600, 900, 901, 1200, 1800, 3600, 3601 }

HistPool ==
    { At(100 + o, e1, "u1", 9 * HOUR + o, "QR") : o \in HistOffsets }

UserPool ==
    { [id |-> "u1", nombre |-> "Usuario 1", facultad |-> "Ingenieria"],
      [id |-> "u2", nombre |-> "Usuario 2", facultad |-> "Derecho"],
      [id |-> "u3", nombre |-> "Usuario 3", facultad |-> "Derecho"] }

UniqueIds(rows) == \A a, b \in rows : a.id = b.id => a = b

EventSets ==
    { S \in SUBSET EventPool : Cardinality(S) <= MaxEvents /\ UniqueIds(S) }

AttSets == { S \in SUBSET AttPool : Cardinality(S) <= MaxAtt }

HistAttSets == { S \in SUBSET HistPool : Cardinality(S) <= MaxAtt }

\* fetch_from_supabase(): None, None, None without credentials or on an error,
\* otherwise the three tables (each possibly empty)
NoTables == [ok |-> FALSE, users |-> {}, events |-> {}, att |-> {}]

Tables(u, e, a) == [ok |-> TRUE, users |-> u, events |-> e, att |-> a]

\* every collection the engine may be handed, empty ones included
Datasets ==
    { Tables(UserPool, e, a) : e \in EventSets, a \in AttSets }
    \cup { Tables(UserPool, {Ev(e1, <<"A">>, "charla", "Ingenieria", 0, 100)}, a) :
             a \in HistAttSets }

FetchResults == {NoTables, Tables({}, {}, {})} \cup Datasets

\* generate_demo_data(seed=42): a fixed store; every check-in belongs to one
\* of its events and no check-in is more than 10 minutes early
generate_demo_data ==
    Tables(UserPool,
           { Ev(e1, <<"A">>, "charla", "Ingenieria", 0, 100),
             Ev(e2, <<"B", "|", "C">>, "charla", "Derecho", 1, 50) },
           { At(1, e1, "u1", 9 * HOUR + 3 * 60, "QR"),
             At(2, e1, "u2", 9 * HOUR + 20 * 60, "manual"),
             At(5, e2, "u1", DAY + 9 * HOUR - 10 * 60, "QR") })

get_data(t) ==
    IF ~t.ok \/ t.users = {} \/ t.events = {} \/ t.att = {}
    THEN generate_demo_data
    ELSE t

------------------------------------------------------------------------------
(* Login *)

USERS == [admin |-> "admin", organizador |-> "organizador"]

\* what can be typed into the two text inputs
Typed == {"admin", "organizador", "guest", ""}

\* variant: any user whose password equals the user name is let in
AuthenticateAny(user, password) == user = password

\* login_page: user in USERS and USERS[user] == password
Authenticate(user, password) ==
    user \in DOMAIN USERS /\ USERS[user] = password

------------------------------------------------------------------------------
(* kpis_header *)

\* the latency, in minutes, up to which a check-in is "Presente"
LateThreshold == 15

\* 0.8: the assumed confirmation rate
ConfirmRate == Frac(4, 5)

\* groupby("evento_id")["usuario_id"].nunique()
presentes_por_evento(att) ==
    [g \in {a.evento_id : a \in att} |-> nunique({a \in att : a.evento_id = g})]

\* variant: distinct users over all events, a user counted once
presentes_distinct_overall(att) == nunique(att)

\* df_att.groupby("evento_id")["usuario_id"].nunique().sum()
presentes_total(att) == Sum(presentes_por_evento(att))

\* variant: without the test cumplimiento > 0
no_show_pct_unguarded(cumplimiento) ==
    Frac(Max2(0, 100 * cumplimiento.den * ConfirmRate.den
                  - cumplimiento.num * ConfirmRate.num),
         cumplimiento.den * ConfirmRate.den)

\* max(0.0, 100 - cumplimiento * 0.8) if cumplimiento > 0 else 0.0
no_show_pct(cumplimiento) ==
    IF cumplimiento.num > 0
    THEN Frac(Max2(0, 100 * cumplimiento.den * ConfirmRate.den
                       - cumplimiento.num * ConfirmRate.num),
              cumplimiento.den * ConfirmRate.den)
    ELSE Frac(0, 1)

kpis_header(ev, att) ==
    LET n_eventos == IF ev # {} THEN Cardinality({e.id : e \in ev}) ELSE 0
        asistentes_unicos == IF att # {} THEN nunique(att) ELSE 0
        total_cupos == Sum([e \in ev |-> e.cupos])
        presentes == presentes_total(att)
        cumplimiento ==
            IF ev # {} /\ att # {}
            THEN IF total_cupos > 0
                 THEN Frac(100 * presentes, total_cupos)
                 ELSE Frac(0, 1)
            ELSE Frac(0, 1)
    IN  [n_eventos |-> n_eventos,
         asistentes_unicos |-> asistentes_unicos,
         cumplimiento |-> cumplimiento,
         no_show |-> no_show_pct(cumplimiento)]

------------------------------------------------------------------------------
(* vista_academica: filters *)

facultades(events) == {ev.facultad : ev \in events} \ {NaN}
tipos(events) == {ev.tipo : ev \in events} \ {NaN}

\* the dates st.date_input can be set to
Dates == {ev.fecha : ev \in EventPool}

\* st.date_input with a pair as value returns a tuple of no, one or two dates
DateRanges ==
    {<<>>} \cup {<<d>> : d \in Dates} \cup {<<a, b>> : a \in Dates, b \in Dates}

\* variant: the end of the range is exclusive
mask_e_end_exclusive(ev, fac_sel, tipo_sel, date_range) ==
    /\ ev.facultad \in fac_sel
    /\ ev.tipo \in tipo_sel
    /\ (Len(date_range) = 2 => ev.fecha >= date_range[1] /\ ev.fecha < date_range[2])

\* mask_e: faculty and type selected; the dates only for a tuple of two
mask_e(ev, fac_sel, tipo_sel, date_range) ==
    /\ ev.facultad \in fac_sel
    /\ ev.tipo \in tipo_sel
    /\ (Len(date_range) = 2 => ev.fecha >= date_range[1] /\ ev.fecha <= date_range[2])

filter_events(events, fac_sel, tipo_sel, date_range) ==
    IF events # {}
    THEN {ev \in events : mask_e(ev, fac_sel, tipo_sel, date_range)}
    ELSE events

filter_att(events, events_f, att) ==
    IF events # {}
    THEN {a \in att : a.evento_id \in {ev.id : ev \in events_f}}
    ELSE att

------------------------------------------------------------------------------
(* vista_academica: aggregates *)

\* hora_checkin.dt.date and hora_checkin.dt.hour
fecha_de(t) == t \div DAY
hora_de(t) == (t % DAY) \div HOUR

\* trend: distinct users per calendar date of check-in
tendencia(att) ==
    [d \in {fecha_de(a.hora_checkin) : a \in att} |->
        nunique({a \in att : fecha_de(a.hora_checkin) = d})]

\* variant: lat_min < 15
estado_strict(lat_min) ==
    IF lat_min.den # 0 /\ lat_min.num < LateThreshold * lat_min.den
    THEN "Presente" ELSE "Tarde"

\* np.where(lat_min <= 15, "Presente", "Tarde"); a NaN latency (den = 0)
\* compares False
estado(lat_min) ==
    IF lat_min.den # 0 /\ FracLE(lat_min, Frac(LateThreshold, 1))
    THEN "Presente" ELSE "Tarde"

\* df_att_f.merge(ev_meta, left_on="evento_id", right_on="id", how="left"),
\* then lat_min and estado; an unmatched row keeps NaN metadata
merge_meta(att, events_f) ==
    UNION { LET match == {ev \in events_f : ev.id = a.evento_id}
            IN  IF match = {}
                THEN {[id |-> a.id, evento_id |-> a.evento_id,
                       usuario_id |-> a.usuario_id, hora_checkin |-> a.hora_checkin,
                       metodo |-> a.metodo, facultad |-> NaN,
                       lat_min |-> Frac(0, 0), estado |-> estado(Frac(0, 0))]}
                ELSE {[id |-> a.id, evento_id |-> a.evento_id,
                       usuario_id |-> a.usuario_id, hora_checkin |-> a.hora_checkin,
                       metodo |-> a.metodo, facultad |-> ev.facultad,
                       lat_min |-> Frac(a.hora_checkin - inicio(ev), 60),
                       estado |-> estado(Frac(a.hora_checkin - inicio(ev), 60))]
                      : ev \in match}
          : a \in att }

\* (cupos * 0.8 - presentes).clip(lower=0)
no_show_de(cupos, presentes) ==
    Frac(Max2(0, cupos * ConfirmRate.num - presentes * ConfirmRate.den),
         ConfirmRate.den)

\* variant: only the events that have check-ins
ev_fac_only_attended(events_f, mm) ==
    LET pres_por_evento == presentes_por_evento(mm)
    IN  [i \in {ev.id : ev \in events_f} \cap DOMAIN pres_por_evento |->
            LET ev == CHOOSE x \in events_f : x.id = i
            IN  [facultad |-> ev.facultad, cupos |-> ev.cupos,
                 presentes |-> pres_por_evento[i],
                 no_show |-> no_show_de(ev.cupos, pres_por_evento[i])]]

\* ev_fac: one row per filtered event, presentes filled with 0
ev_fac_de(events_f, mm) ==
    LET pres_por_evento == presentes_por_evento(mm)
    IN  [i \in {ev.id : ev \in events_f} |->
            LET ev == CHOOSE x \in events_f : x.id = i
                presentes == IF i \in DOMAIN pres_por_evento
                             THEN pres_por_evento[i] ELSE 0
            IN  [facultad |-> ev.facultad, cupos |-> ev.cupos,
                 presentes |-> presentes,
                 no_show |-> no_show_de(ev.cupos, presentes)]]

\* ev_fac.groupby("facultad")["no_show"].sum()
no_show_fac(evfac) ==
    [f \in {evfac[i].facultad : i \in DOMAIN evfac} \ {NaN} |->
        Frac(Sum([i \in {j \in DOMAIN evfac : evfac[j].facultad = f} |->
                     evfac[i].no_show.num]),
             ConfirmRate.den)]

\* variant: rows counted instead of distinct users
comparativo_rows(mm, evfac) ==
    LET nsf == no_show_fac(evfac)
    IN  [f \in {r.facultad : r \in mm} \ {NaN} |->
            [c \in {r.estado : r \in mm} \cup {"No-show"} |->
                IF c = "No-show"
                THEN IF f \in DOMAIN nsf THEN nsf[f] ELSE Frac(0, 1)
                ELSE Frac(Cardinality({r \in mm : r.facultad = f /\ r.estado = c}), 1)]]

\* groupby(["facultad", "estado"])["usuario_id"].nunique().unstack(fill_value=0)
\* plus the "No-show" column: a row per faculty seen in m, a column per estado
\* seen in m
comparativo(mm, evfac) ==
    LET nsf == no_show_fac(evfac)
    IN  [f \in {r.facultad : r \in mm} \ {NaN} |->
            [c \in {r.estado : r \in mm} \cup {"No-show"} |->
                IF c = "No-show"
                THEN IF f \in DOMAIN nsf THEN nsf[f] ELSE Frac(0, 1)
                ELSE Frac(nunique({r \in mm : r.facultad = f /\ r.estado = c}), 1)]]

\* pivot_table(index="facultad", columns="hora", values="usuario_id",
\* aggfunc="nunique").fillna(0) over the check-ins merged with the faculty
heatmap(att, events_f) ==
    LET tmp == merge_meta(att, events_f)
        known == {r \in tmp : r.facultad # NaN}
    IN  [f \in {r.facultad : r \in known} |->
            [h \in {hora_de(r.hora_checkin) : r \in known} |->
                nunique({r \in known : r.facultad = f /\ hora_de(r.hora_checkin) = h})]]

------------------------------------------------------------------------------
(* vista_organizador *)

\* bins = [-10, 0, 5, 10, 15, 20, 30, 60], in minutes
bins == <<-10, 0, 5, 10, 15, 20, 30, 60>>

NBins == Len(bins) - 1

\* x < y and x = y for a fraction x and an integer y
FracLT(x, y) == x.num < y * x.den
FracIs(x, y) == x.num = y * x.den

\* variant: pd.cut(x, bins, right=False), bin b is [bins[b], bins[b+1])
pd_cut_left_closed(x) ==
    LET ids == Cardinality({j \in 1..Len(bins) : ~FracLT(x, bins[j])})
    IN  IF ids = 0 \/ ids = Len(bins) THEN 0 ELSE ids

\* pd.cut(x, bins, include_lowest=True), right=True by default: the bin of x
\* is searchsorted(bins, x, side="left"), a value equal to bins[0] is put in
\* the first bin, and positions 0 and len(bins) are out of range (NaN, here 0)
pd_cut(x) ==
    LET ids == Cardinality({j \in 1..Len(bins) : bins[j] * x.den < x.num})
    IN  IF FracIs(x, bins[1]) THEN 1
        ELSE IF ids = 0 \/ ids = Len(bins) THEN 0
        ELSE ids

\* str(Interval) of the categories, as df_hist["bin"].astype(str) gives them
bin_label ==
    <<"(-10.001, 0.0]", "(0.0, 5.0]", "(5.0, 10.0]", "(10.0, 15.0]",
      "(15.0, 20.0]", "(20.0, 30.0]", "(30.0, 60.0]">>

NoOrg == [estado |-> "none"]

\* the body of vista_organizador for the option of event opt
organizador(d, opt) ==
    LET evento_sel == opt.titulo \o <<" ", "|", " ">> \o opt.id
        ev_id == Strip(SplitLast(evento_sel, "|"))
        df_ev == {ev \in d.events : ev.id = ev_id}
        df_ev_att == {a \in d.att : a.evento_id = ev_id}
    IN  IF df_ev = {}
        THEN [estado |-> "no_encontrado", ev_id |-> ev_id]
        ELSE
        LET ev == CHOOSE x \in df_ev : TRUE
            start_dt == inicio(ev)
            lat_min == [a \in df_ev_att |-> Frac(a.hora_checkin - start_dt, 60)]
            n == Cardinality(df_ev_att)
            cats == [a \in df_ev_att |-> pd_cut(lat_min[a])]
        IN  IF df_ev_att = {}
            THEN [estado |-> "sin_asistencias", ev_id |-> ev_id,
                  asistentes |-> nunique(df_ev_att), cupos |-> ev.cupos]
            ELSE [estado |-> "ok", ev_id |-> ev_id,
                  asistentes |-> nunique(df_ev_att), cupos |-> ev.cupos,
                  \* lat_min.clip(lower=0).mean()
                  tardanza_media |->
                      Frac(Sum([a \in df_ev_att |-> Max2(0, lat_min[a].num)]), 60 * n),
                  \* (metodo == "QR").mean() * 100
                  tasa_exito |->
                      Frac(100 * Cardinality({a \in df_ev_att : a.metodo = "QR"}), n),
                  \* distinct users per minute of check-in
                  dens |->
                      [mi \in {a.hora_checkin \div 60 : a \in df_ev_att} |->
                          nunique({a \in df_ev_att : a.hora_checkin \div 60 = mi})],
                  cats |-> [i \in {a.id : a \in df_ev_att} |->
                              cats[CHOOSE a \in df_ev_att : a.id = i]],
                  \* cats.value_counts().sort_index(): every bin, in order
                  hist |->
                      [b \in 1..NBins |->
                          [bin |-> bin_label[b],
                           count |-> Cardinality({a \in df_ev_att : cats[a] = b})]],
                  detalle |->
                      {[usuario_id |-> a.usuario_id,
                        nombre |-> LET u == {x \in d.users : x.id = a.usuario_id}
                                   IN  IF u = {} THEN NaN
                                       ELSE (CHOOSE x \in u : TRUE).nombre,
                        hora_checkin |-> a.hora_checkin, metodo |-> a.metodo,
                        lat_min |-> lat_min[a]] : a \in df_ev_att}]

------------------------------------------------------------------------------
(* The runs of the script *)

Blank ==
    /\ df_users' = {} /\ df_events' = {} /\ df_att' = {}
    /\ sel' = <<>>
    /\ df_events_f' = {} /\ df_att_f' = {}
    /\ kpis' = <<>> /\ trend' = <<>> /\ m' = {} /\ ev_fac' = <<>>
    /\ by_fac_estado' = <<>> /\ heat' = <<>>
    /\ org' = NoOrg

\* vista_academica on the store d with the widgets set to fac_sel, tipo_sel
\* and date_range
academica(d, fac_sel, tipo_sel, date_range) ==
    LET evf == filter_events(d.events, fac_sel, tipo_sel, date_range)
        attf == filter_att(d.events, evf, d.att)
        both == attf # {} /\ evf # {}
        mm == IF both THEN merge_meta(attf, evf) ELSE {}
        evfac == IF both THEN ev_fac_de(evf, mm) ELSE <<>>
    IN  /\ df_users' = d.users /\ df_events' = d.events /\ df_att' = d.att
        /\ sel' = [fac_sel |-> fac_sel, tipo_sel |-> tipo_sel,
                   date_range |-> date_range]
        /\ df_events_f' = evf
        /\ df_att_f' = attf
        /\ kpis' = kpis_header(evf, attf)
        /\ trend' = IF attf # {} THEN tendencia(attf) ELSE <<>>
        /\ m' = mm
        /\ ev_fac' = evfac
        /\ by_fac_estado' = IF both THEN comparativo(mm, evfac) ELSE <<>>
        /\ heat' = IF attf # {} THEN heatmap(attf, evf) ELSE <<>>
        /\ org' = NoOrg

\* vista_organizador on the store d: without events it stops at "No hay
\* eventos disponibles", otherwise the selectbox holds one of the events
organizador_run(d) ==
    /\ df_users' = d.users /\ df_events' = d.events /\ df_att' = d.att
    /\ df_events_f' = {} /\ df_att_f' = {}
    /\ kpis' = <<>> /\ trend' = <<>> /\ m' = {} /\ ev_fac' = <<>>
    /\ by_fac_estado' = <<>> /\ heat' = <<>>
    /\ IF d.events = {}
       THEN /\ sel' = <<>>
            /\ org' = [estado |-> "sin_eventos"]
       ELSE \E opt \in d.events :
            /\ sel' = [evento_sel |-> opt.titulo \o <<" ", "|", " ">> \o opt.id]
            /\ org' = organizador(d, opt)

\* lines 33-35, and the store as it is when the session starts
Init ==
    /\ logged_in = FALSE
    /\ role = "None"
    /\ page = "none"
    /\ flash = "none"
    /\ tables \in FetchResults
    /\ df_users = {} /\ df_events = {} /\ df_att = {}
    /\ sel = <<>>
    /\ df_events_f = {} /\ df_att_f = {}
    /\ kpis = <<>> /\ trend = <<>> /\ m = {} /\ ev_fac = <<>>
    /\ by_fac_estado = <<>> /\ heat = <<>>
    /\ org = NoOrg

\* main, not logged in: login_page without a click
ShowLogin ==
    /\ ~logged_in
    /\ page' = "login"
    /\ flash' = "none"
    /\ Blank
    /\ UNCHANGED <<logged_in, role, tables>>

\* login_page, "Iniciar sesión" clicked with good credentials: st.rerun()
LoginOk ==
    /\ ~logged_in
    /\ page = "login"
    /\ \E user \in Typed, password \in Typed :
          /\ Authenticate(user, password)
          /\ logged_in' = TRUE
          /\ role' = user
    /\ flash' = "success"
    /\ page' = "rerun"
    /\ Blank
    /\ UNCHANGED tables

\* login_page, "Iniciar sesión" clicked with bad credentials
LoginFail ==
    /\ ~logged_in
    /\ page = "login"
    /\ \E user \in Typed, password \in Typed : ~Authenticate(user, password)
    /\ flash' = "error"
    /\ page' = "login"
    /\ Blank
    /\ UNCHANGED <<logged_in, role, tables>>

\* main, logged in, "Cerrar sesión" clicked: st.rerun()
Logout ==
    /\ logged_in
    /\ page \in {"academica", "organizador"}
    /\ logged_in' = FALSE
    /\ role' = "None"
    /\ flash' = "none"
    /\ page' = "rerun"
    /\ Blank
    /\ UNCHANGED tables

\* the defaults of the three widgets (lines 198-205)
min_date(events) == MinOf({ev.fecha : ev \in events})
max_date(events) == MaxOf({ev.fecha : ev \in events})

\* main, logged in as admin, first run after the login: the widgets hold
\* their defaults
VistaAcademica ==
    /\ logged_in
    /\ role = "admin"
    /\ page = "rerun"
    /\ LET d == get_data(tables)
       IN  academica(d, facultades(d.events), tipos(d.events),
                     <<min_date(d.events), max_date(d.events)>>)
    /\ page' = "academica"
    /\ flash' = "none"
    /\ UNCHANGED <<logged_in, role, tables>>

\* a run of vista_academica after the "Facultad" multiselect was changed
CambiaFacultad ==
    /\ logged_in
    /\ role = "admin"
    /\ page = "academica"
    /\ \E fac_sel \in SUBSET facultades(get_data(tables).events) :
          academica(get_data(tables), fac_sel, sel.tipo_sel, sel.date_range)
    /\ UNCHANGED <<logged_in, role, tables, page, flash>>

\* a run of vista_academica after the "Tipo de evento" multiselect was changed
CambiaTipo ==
    /\ logged_in
    /\ role = "admin"
    /\ page = "academica"
    /\ \E tipo_sel \in SUBSET tipos(get_data(tables).events) :
          academica(get_data(tables), sel.fac_sel, tipo_sel, sel.date_range)
    /\ UNCHANGED <<logged_in, role, tables, page, flash>>

\* a run of vista_academica after the "Rango de fechas" input was changed
CambiaFechas ==
    /\ logged_in
    /\ role = "admin"
    /\ page = "academica"
    /\ \E date_range \in DateRanges :
          academica(get_data(tables), sel.fac_sel, sel.tipo_sel, date_range)
    /\ UNCHANGED <<logged_in, role, tables, page, flash>>

\* main, logged in as organizador
VistaOrganizador ==
    /\ logged_in
    /\ role = "organizador"
    /\ organizador_run(get_data(tables))
    /\ page' = "organizador"
    /\ flash' = "none"
    /\ UNCHANGED <<logged_in, role, tables>>

\* main, logged in with any other role: "Rol no reconocido."
RolNoReconocido ==
    /\ logged_in
    /\ role \notin {"admin", "organizador"}
    /\ page' = "no_reconocido"
    /\ flash' = "error"
    /\ Blank
    /\ UNCHANGED <<logged_in, role, tables>>

Next ==
    \/ ShowLogin
    \/ LoginOk
    \/ LoginFail
    \/ Logout
    \/ VistaAcademica
    \/ CambiaFacultad
    \/ CambiaTipo
    \/ CambiaFechas
    \/ VistaOrganizador

Spec == Init /\ [][Next]_vars

------------------------------------------------------------------------------
(* The views as functions of the collections they are handed *)

InitEngine ==
    /\ logged_in = FALSE
    /\ role = "None"
    /\ page = "none"
    /\ flash = "none"
    /\ tables \in Datasets
    /\ df_users = {} /\ df_events = {} /\ df_att = {}
    /\ sel = <<>>
    /\ df_events_f = {} /\ df_att_f = {}
    /\ kpis = <<>> /\ trend = <<>> /\ m = {} /\ ev_fac = <<>>
    /\ by_fac_estado = <<>> /\ heat = <<>>
    /\ org = NoOrg

EngineAcademica ==
    /\ page = "none"
    /\ \E fac_sel \in SUBSET facultades(tables.events),
          tipo_sel \in SUBSET tipos(tables.events),
          date_range \in DateRanges :
          academica(tables, fac_sel, tipo_sel, date_range)
    /\ page' = "academica"
    /\ UNCHANGED <<logged_in, role, flash, tables>>

EngineOrganizador ==
    /\ page = "none"
    /\ organizador_run(tables)
    /\ page' = "organizador"
    /\ UNCHANGED <<logged_in, role, flash, tables>>

NextEngine ==
    \/ EngineAcademica
    \/ EngineOrganizador

SpecEngine == InitEngine /\ [][NextEngine]_vars

------------------------------------------------------------------------------
(* Properties *)

ids(rows) == {r.id : r \in rows}
EventOf(events, i) == CHOOSE ev \in events : ev.id = i
\* seconds from the start of event i to the check-in a
LatSec(events, a) == a.hora_checkin - inicio(EventOf(events, a.evento_id))
Fifths(n) == Frac(n, 5)

Academica == page = "academica"
OrganizadorOk == page = "organizador" /\ org.estado = "ok"
Selected == {a \in df_att : a.evento_id = org.ev_id}
\* latency x (seconds) lies in (bins[b], bins[b+1]], or is the lowest edge
InBinRightClosed(x, b) ==
    \/ 60 * bins[b] < x /\ x <= 60 * bins[b + 1]
    \/ b = 1 /\ x = 60 * bins[1]

\* C1 as stated: a latency equal to an interior edge e is counted in the bin
\* that starts at e (0 in the bin from 0 to 5), and -10 in the first bin.
C1_EdgeStartsBin ==
    OrganizadorOk =>
        \A a \in Selected :
            /\ \A b \in 2..NBins :
                  LatSec(df_events, a) = 60 * bins[b] => org.cats[a.id] = b
            /\ LatSec(df_events, a) = 60 * bins[1] => org.cats[a.id] = 1

\* C1 amended: every check-in of the selected event is counted in bin b exactly
\* when its latency is in (bins[b], bins[b+1]], or is -10 and b is the first
\* bin; so a latency equal to an edge other than the first is counted in the
\* bin that ends at it, and each bin's count is the number of such check-ins.
C1_EdgeEndsBin ==
    OrganizadorOk =>
        /\ \A a \in Selected : \A b \in 1..NBins :
              org.cats[a.id] = b <=> InBinRightClosed(LatSec(df_events, a), b)
        /\ \A b \in 1..NBins :
              org.hist[b].count =
                  Cardinality({a \in Selected : InBinRightClosed(LatSec(df_events, a), b)})

C1_Witness ==
    /\ OrganizadorOk
    /\ \E a \in Selected :
          /\ LatSec(df_events, a) = 0
          /\ org.cats[a.id] = 1
          /\ org.hist[1].count >= 1

Orphans == {a \in df_att : a.evento_id \notin ids(df_events)}
\* the check-ins of the filtered events
Retained == {a \in df_att : a.evento_id \in ids(df_events_f)}

InRangeAnyShape(d, dr) ==
    /\ Len(dr) >= 1 => dr[1] <= d
    /\ Len(dr) >= 2 => d <= dr[2]

\* C4 as stated: for every shape of the date input, an event is retained
\* exactly when its faculty and type are selected and its date is not before
\* the start and not after the end of the range.
C4_FilterEveryShape ==
    Academica =>
        \A ev \in df_events :
            ev \in df_events_f <=>
                /\ ev.facultad \in sel.fac_sel
                /\ ev.tipo \in sel.tipo_sel
                /\ InRangeAnyShape(ev.fecha, sel.date_range)

\* C4 amended: an event is retained exactly when its faculty and type are
\* selected and, if the date input holds a (start, end) pair, its date is in
\* start..end; a date input with fewer than two dates puts no condition on
\* the date.  So an empty selection or a start after the end retains nothing.
C4_FilterPairOnly ==
    Academica =>
        /\ df_events_f \subseteq df_events
        /\ \A ev \in df_events :
              ev \in df_events_f <=>
                  /\ ev.facultad \in sel.fac_sel
                  /\ ev.tipo \in sel.tipo_sel
                  /\ Len(sel.date_range) = 2 =>
                        sel.date_range[1] <= ev.fecha /\ ev.fecha <= sel.date_range[2]
        /\ (sel.fac_sel = {} \/ sel.tipo_sel = {}) => df_events_f = {}
        /\ (Len(sel.date_range) = 2 /\ sel.date_range[1] > sel.date_range[2])
              => df_events_f = {}

C4_Witness ==
    /\ Academica
    /\ Len(sel.date_range) = 2
    /\ \E ev \in df_events_f : ev.fecha = sel.date_range[2]
    /\ \E ev \in df_events \ df_events_f :
          ev.facultad \in sel.fac_sel /\ ev.tipo \in sel.tipo_sel

\* distinct users checked in to event ev
Attendees(ev) == {a.usuario_id : a \in {x \in df_att : x.evento_id = ev.id}}

\* C5: compliance is 100 * (sum over the filtered events of the distinct users
\* checked in to each) / (sum of the capacities of all filtered events), 0
\* when that capacity is 0, and 0 when there are no check-ins.
C5_Compliance ==
    Academica =>
        LET num == Sum([ev \in df_events_f |-> Cardinality(Attendees(ev))])
            cap == Sum([ev \in df_events_f |-> ev.cupos])
        IN  /\ kpis.cumplimiento.den > 0
            /\ cap > 0 => FracEq(kpis.cumplimiento, Frac(100 * num, cap))
            /\ cap = 0 => kpis.cumplimiento.num = 0
            /\ df_att_f = {} => kpis.cumplimiento.num = 0

C5_Witness ==
    /\ Academica
    /\ \E a, b \in df_att_f :
          a.usuario_id = b.usuario_id /\ a.evento_id # b.evento_id
    /\ FracEq(kpis.cumplimiento,
              Frac(100 * 2, Sum([ev \in df_events_f |-> ev.cupos])))
    /\ kpis.cumplimiento.num > 0

\* C6: every retained check-in is Present exactly when its latency, the
\* check-in time minus the start of its event, is at most 15 minutes, and
\* Late otherwise.
C6_Classifier ==
    Academica =>
        /\ \A a \in df_att_f : \E r \in m : r.id = a.id
        /\ \A r \in m :
              /\ FracEq(r.lat_min, Frac(LatSec(df_events, r), 60))
              /\ r.estado = IF LatSec(df_events, r) <= LateThreshold * 60
                            THEN "Presente" ELSE "Tarde"

C6_Witness ==
    /\ Academica
    /\ \E r \in m : LatSec(df_events, r) = 15 * 60 /\ r.estado = "Presente"
    /\ \E r \in m : LatSec(df_events, r) = 15 * 60 + 1 /\ r.estado = "Tarde"

\* C7: when no check-in is retained, every aggregate has its zero or empty
\* form: the event count is the number of filtered events, and unique
\* attendees, compliance and no-show are 0; trend, breakdown and heatmap are
\* empty.
C7_EmptyPropagates ==
    (Academica /\ df_att_f = {}) =>
        /\ kpis.n_eventos = Cardinality(ids(df_events_f))
        /\ kpis.asistentes_unicos = 0
        /\ kpis.cumplimiento.num = 0
        /\ kpis.no_show.num = 0
        /\ DOMAIN trend = {}
        /\ m = {}
        /\ DOMAIN by_fac_estado = {}
        /\ DOMAIN heat = {}

C7_Witness ==
    /\ Academica
    /\ df_att = {}
    /\ Cardinality(df_events_f) = 1
    /\ \A ev \in df_events_f : ev.cupos = 50
    /\ kpis.n_eventos = 1

\* C8: wherever the breakdown is drawn, each filtered event has
\* no_show = max(0, 0.8 * cupos - presentes), presentes its distinct users (0
\* without check-ins), and a faculty's No-show is the sum over all its
\* filtered events, never negative.
C8_NoShow ==
    (Academica /\ df_att_f # {}) =>
        /\ DOMAIN ev_fac = ids(df_events_f)
        /\ \A ev \in df_events_f :
              /\ ev_fac[ev.id].presentes = Cardinality(Attendees(ev))
              /\ FracEq(ev_fac[ev.id].no_show,
                        Fifths(Max2(0, 4 * ev.cupos - 5 * Cardinality(Attendees(ev)))))
              /\ ev_fac[ev.id].no_show.num >= 0
        /\ \A f \in DOMAIN by_fac_estado :
              /\ FracEq(by_fac_estado[f]["No-show"],
                    Fifths(Sum([ev \in {x \in df_events_f : x.facultad = f} |->
                              Max2(0, 4 * ev.cupos - 5 * Cardinality(Attendees(ev)))])))
              /\ by_fac_estado[f]["No-show"].num >= 0

C8_Witness ==
    /\ Academica
    /\ \E ev \in df_events_f :
          /\ ev.cupos = 100
          /\ Cardinality(Attendees(ev)) = 2
          /\ FracEq(ev_fac[ev.id].no_show, Frac(78, 1))
          /\ FracEq(by_fac_estado[ev.facultad]["No-show"], Frac(78, 1))

\* the status of check-in a by the 15 minute rule
StatusOf(a) ==
    IF LatSec(df_events, a) <= 15 * 60 THEN "Presente" ELSE "Tarde"
\* distinct users with a retained check-in of status c in faculty f
UsersIn(f, c) ==
    {a.usuario_id : a \in {x \in df_att_f :
        EventOf(df_events_f, x.evento_id).facultad = f /\ StatusOf(x) = c}}

\* C9 as stated: the breakdown has a key for exactly the faculties with a
\* retained check-in, and under each key both Present and Late hold the
\* number of distinct users, 0 for a status without check-ins.
C9_BothStatuses ==
    Academica =>
        /\ DOMAIN by_fac_estado =
              {EventOf(df_events_f, a.evento_id).facultad : a \in df_att_f}
        /\ \A f \in DOMAIN by_fac_estado : \A c \in {"Presente", "Tarde"} :
              /\ c \in DOMAIN by_fac_estado[f]
              /\ by_fac_estado[f][c] = Frac(Cardinality(UsersIn(f, c)), 1)

\* C9 amended: the keys are exactly the faculties with a retained check-in;
\* under each key there is an entry for a status exactly when some retained
\* check-in (of any faculty) has that status, and the entry is the number of
\* distinct users of that status in the faculty, 0 if it has none.
C9_SeenStatuses ==
    Academica =>
        /\ DOMAIN by_fac_estado =
              {EventOf(df_events_f, a.evento_id).facultad : a \in df_att_f}
        /\ \A f \in DOMAIN by_fac_estado : \A c \in {"Presente", "Tarde"} :
              /\ c \in DOMAIN by_fac_estado[f] <=> \E a \in df_att_f : StatusOf(a) = c
              /\ c \in DOMAIN by_fac_estado[f] =>
                    by_fac_estado[f][c] = Frac(Cardinality(UsersIn(f, c)), 1)

C9_Witness ==
    /\ Academica
    /\ nunique(df_att_f) = 1
    /\ \E f \in DOMAIN by_fac_estado :
          /\ {"Presente", "Tarde"} \subseteq DOMAIN by_fac_estado[f]
          /\ by_fac_estado[f]["Presente"] = Frac(1, 1)
          /\ by_fac_estado[f]["Tarde"] = Frac(1, 1)

\* C10: logged_in holds exactly when role is a configured user, role is None
\* when logged out, a failed login leaves the session logged out, each view
\* is rendered only for its role, and the "Rol no reconocido" branch is never
\* taken.
C10_Session ==
    /\ logged_in <=> role \in DOMAIN USERS
    /\ ~logged_in => role = "None"
    /\ flash = "error" => ~logged_in /\ role = "None"
    /\ page = "academica" => logged_in /\ role = "admin"
    /\ page = "organizador" => logged_in /\ role = "organizador"
    /\ ~(logged_in /\ role \notin {"admin", "organizador"})
    /\ page # "no_reconocido"

C10_Witness ==
    /\ page = "organizador"
    /\ logged_in
    /\ role = "organizador"

====
